---------------------------- MODULE Spec2Model ----------------------------
(***************************************************************************)
(* Model of the api-server extractor of home-gallery                       *)
(* (src/unnamed/part_000): apiServerEntry builds a dispatcher that, for    *)
(* every entry of a stream, tests the entry, and for an admitted entry     *)
(* reads a preview file, POSTs it to the api server and writes the         *)
(* response next to the entry.  A counter of remote failures               *)
(* (currentErrors) closes the gate once it exceeds ERROR_THRESHOLD.        *)
(*                                                                         *)
(* The stream primitives parallel and conditionalTask live in other        *)
(* packages of the repository; they are modelled from the specification    *)
(* (section 4.4).  The Entry Store and the remote api server are the       *)
(* environment: their answers are chosen nondeterministically from the     *)
(* answers the variables disk and remote allow.                            *)
(***************************************************************************)
EXTENDS Integers, Sequences, FiniteSets, Bags, TLC

(***************************************************************************)
(* Bounds of the model.                                                    *)
(***************************************************************************)
MaxEntries == 3        \* length of the stream under Spec
OutageEntries == 12    \* length of the stream under SpecOutage
MaxConcurrent == 2     \* largest configured concurrency limit
MaxDisable == 2        \* longest list of the disable setting
PairEntries == 7       \* length of the stream under SpecPair
MaxIndexEntries == 3   \* longest list of entries given to writeIndex

(***************************************************************************)
(* Program constants and the configuration of one dispatcher.              *)
(***************************************************************************)
ERROR_THRESHOLD == 5

\* The preview sizes <= 800 mapped to suffixes, in the configured order.
imagePreviewSuffixes == <<"image-preview-800.jpg", "image-preview-320.jpg">>

\* The three adapters, the feature name each looks up in the disable
\* setting, and the output suffix each gives its dispatcher.
Adapters == {"similarEmbeddings", "objectDetection", "faceDetection"}
featureOf(a) ==
    CASE a = "similarEmbeddings" -> "similarDetection"
      [] a = "objectDetection" -> "objectDetection"
      [] a = "faceDetection" -> "faceDetection"
entrySuffixOf(a) ==
    CASE a = "similarEmbeddings" -> "similarity-embeddings.json"
      [] a = "objectDetection" -> "objects.json"
      [] a = "faceDetection" -> "faces.json"

Types == {"image", "rawImage", "video"}
NoFile == "<missing>"
undefined == "<undefined>"
Jpeg == "<jpeg bytes>"
Bodies == {"{objects:[]}", "{objects:[cat]}"}
\* the body the api server computes from the preview of entry i
bodyOf(i) == IF i % 2 = 1 THEN "{objects:[]}" ELSE "{objects:[cat]}"
Statuses == {99, 100, 200, 299, 300, 500}

\* What the remote service can answer to the request for entry i: a
\* transport error (err set, no response) or a response with a status code
\* and the body the server computes for i.
TransportErrors == {[err |-> TRUE, statusCode |-> 0, body |-> NoFile]}
HttpResponses(i) == [err : {FALSE}, statusCode : Statuses, body : {bodyOf(i)}]
Responses(i) == TransportErrors \cup HttpResponses(i)
\* the answer of a server that is down (no connection, or status 500), and
\* of one that serves entry i
Down(i) == IF i % 2 = 1 THEN TransportErrors
           ELSE {r \in HttpResponses(i) : r.statusCode = 500}
Up(i) == {r \in HttpResponses(i) : r.statusCode = 200}

VARIABLES
    concurrent,     \* configured concurrency limit of the dispatcher
    source,         \* the input stream: a sequence of entries
    consumed,       \* number of entries of source the dispatcher has taken
    sink,           \* the output stream, as a bag of entries
    running,        \* number of tasks the dispatcher counts as running
    files,          \* Entry Store: files[id][suffix] is the content or NoFile
    remote,         \* remote[id]: the answers the api server may give for id
    disk,           \* disk[id]: the err values the Entry Store may give for id
    currentErrors,  \* the error counter of the dispatcher
    warnings,       \* number of 'Too many errors' lines logged
    pc,             \* pc[id]: the callback the task of entry id waits for
    local,          \* local[id]: imagePreviewSuffix, buffer and body of the task
    event,          \* the handler that ran last, with its inputs
    tripped,        \* history: currentErrors has exceeded ERROR_THRESHOLD
    streak,         \* history: [f, s] when the counter updates of the run
                    \* were f increments followed by s decrements, f = -1 otherwise
    adapter,        \* the adapter that built the stage
    disable,        \* config.extractor.apiServer.disable
    run,            \* number of the run over the stream
    other,          \* a second dispatcher over the same entries, while the
                    \* handlers of the first one run
    index           \* the call of writeIndex

vars == <<concurrent, source, consumed, sink, running, files, remote, disk,
          currentErrors, warnings, pc, local, event, tripped, streak,
          adapter, disable, run, other, index>>

\* what the handlers of one dispatcher in one run have no access to
outside == <<adapter, disable, run, other, index>>

Ids == DOMAIN source

\* The output suffix of the dispatcher, and the suffixes it uses.
entrySuffix == entrySuffixOf(adapter)

Suffixes == {imagePreviewSuffixes[i] : i \in 1..Len(imagePreviewSuffixes)} \cup {entrySuffix}

(***************************************************************************)
(* Entry Store (external collaborator, section 6 of the specification).    *)
(***************************************************************************)
hasEntryFile(entry, suffix) == files[entry.id][suffix] # NoFile

\* suffixes.find(suffix => storage.hasEntryFile(entry, suffix)): the first
\* suffix of the list that exists, or undefined.
getEntryFileBySuffixes(entry, suffixes) ==
    LET found == {i \in 1..Len(suffixes) : hasEntryFile(entry, suffixes[i])}
    IN  IF found = {} THEN undefined
        ELSE suffixes[CHOOSE i \in found : \A j \in found : i <= j]

(***************************************************************************)
(* The closure of apiServerEntry.                                          *)
(***************************************************************************)
\* A slip: the trip is remembered instead of read from the counter.
testLatched(entry) ==
    IF tripped THEN FALSE
    ELSE IF \/ getEntryFileBySuffixes(entry, imagePreviewSuffixes) = undefined
            \/ hasEntryFile(entry, entrySuffix) THEN FALSE
    ELSE IF entry.type = "image" \/ entry.type = "rawImage" THEN TRUE
    ELSE FALSE

\* A slip: the gate is closed one failure late.
testLate(entry) ==
    IF currentErrors > ERROR_THRESHOLD + 1 THEN FALSE
    ELSE IF \/ getEntryFileBySuffixes(entry, imagePreviewSuffixes) = undefined
            \/ hasEntryFile(entry, entrySuffix) THEN FALSE
    ELSE IF entry.type = "image" \/ entry.type = "rawImage" THEN TRUE
    ELSE FALSE

\* A slip: the type of the entry is not looked at.
testAnyType(entry) ==
    IF currentErrors > ERROR_THRESHOLD THEN FALSE
    ELSE IF \/ getEntryFileBySuffixes(entry, imagePreviewSuffixes) = undefined
            \/ hasEntryFile(entry, entrySuffix) THEN FALSE
    ELSE TRUE

\* A slip: a result that exists already is not looked for.
testNoOutput(entry) ==
    IF currentErrors > ERROR_THRESHOLD THEN FALSE
    ELSE IF getEntryFileBySuffixes(entry, imagePreviewSuffixes) = undefined THEN FALSE
    ELSE IF entry.type = "image" \/ entry.type = "rawImage" THEN TRUE
    ELSE FALSE

\* A slip: the counter is not looked at.
testNoBudget(entry) ==
    IF \/ getEntryFileBySuffixes(entry, imagePreviewSuffixes) = undefined
       \/ hasEntryFile(entry, entrySuffix) THEN FALSE
    ELSE IF entry.type = "image" \/ entry.type = "rawImage" THEN TRUE
    ELSE FALSE

test(entry) ==
    IF currentErrors > ERROR_THRESHOLD THEN FALSE
    ELSE IF \/ getEntryFileBySuffixes(entry, imagePreviewSuffixes) = undefined
            \/ hasEntryFile(entry, entrySuffix) THEN FALSE
    ELSE IF entry.type = "image" \/ entry.type = "rawImage" THEN TRUE
    ELSE FALSE

\* addError: currentErrors++, and the warning when the new value is above
\* the threshold.
addError ==
    /\ currentErrors' = currentErrors + 1
    /\ warnings' = IF currentErrors + 1 > ERROR_THRESHOLD
                   THEN warnings + 1 ELSE warnings
    /\ tripped' = (tripped \/ currentErrors + 1 > ERROR_THRESHOLD)
    /\ streak' = IF streak.f >= 0 /\ streak.s = 0
                 THEN [f |-> streak.f + 1, s |-> 0]
                 ELSE IF currentErrors = 0 THEN [f |-> 1, s |-> 0]
                 ELSE [f |-> -1, s |-> 0]

\* A slip: the decrement without its guard.
decErrorNoFloor ==
    /\ currentErrors' = currentErrors - 1
    /\ streak' = IF streak.f >= 0 THEN [streak EXCEPT !.s = @ + 1] ELSE streak
    /\ UNCHANGED <<warnings, tripped>>

\* if (currentErrors > 0) currentErrors--
decError ==
    /\ currentErrors' = IF currentErrors > 0 THEN currentErrors - 1 ELSE currentErrors
    /\ streak' = IF streak.f >= 0 THEN [streak EXCEPT !.s = @ + 1] ELSE streak
    /\ UNCHANGED <<warnings, tripped>>

\* cb(): the dispatcher takes the task as finished and pushes the entry.
cb(entry) ==
    /\ sink' = sink (+) SetToBag({entry})
    /\ running' = running - 1

\* A slip: 300 taken as a success.
badStatusAbove300(statusCode) == statusCode < 100 \/ statusCode > 300

\* res.statusCode < 100 || res.statusCode >= 300
badStatus(statusCode) == statusCode < 100 \/ statusCode >= 300

noLocal == [imagePreviewSuffix |-> undefined, buffer |-> NoFile, body |-> NoFile]

Event(op, id, err, statusCode, body) ==
    [op |-> op, id |-> id, err |-> err, statusCode |-> statusCode, body |-> body]

\* task(entry, cb): pick the preview suffix and ask the store for the file.
task(entry) ==
    LET imagePreviewSuffix == getEntryFileBySuffixes(entry, imagePreviewSuffixes)
    IN  /\ pc' = [pc EXCEPT ![entry.id] = "readEntryFile"]
        /\ local' = [local EXCEPT ![entry.id].imagePreviewSuffix = imagePreviewSuffix]
        /\ UNCHANGED <<sink, files, currentErrors, warnings, tripped, streak>>

\* conditionalTask(test, task): run the task for an entry test accepts,
\* call back at once for the others.
conditionalTask(entry) ==
    IF test(entry)
    THEN /\ running' = running + 1
         /\ task(entry)
    ELSE /\ sink' = sink (+) SetToBag({entry})
         /\ pc' = [pc EXCEPT ![entry.id] = "done"]
         /\ UNCHANGED <<running, local, files, currentErrors, warnings, tripped, streak>>

\* parallel({task, concurrent}): take the next entry of the stream when
\* fewer than concurrent tasks are running.
parallel ==
    /\ consumed < Len(source)
    /\ running < concurrent
    /\ consumed' = consumed + 1
    /\ conditionalTask(source[consumed + 1])
    /\ event' = Event("parallel", source[consumed + 1].id, FALSE, 0, NoFile)
    /\ UNCHANGED <<concurrent, source, remote, disk>>

\* A slip: a failed read counted as an error of the api server.
readEntryFileCbCounts(entry, err) ==
    /\ pc[entry.id] = "readEntryFile"
    /\ err \in disk[entry.id]
    /\ IF err
       THEN /\ addError
            /\ cb(entry)
            /\ pc' = [pc EXCEPT ![entry.id] = "done"]
            /\ local' = [local EXCEPT ![entry.id] = noLocal]
       ELSE /\ pc' = [pc EXCEPT ![entry.id] = "request"]
            /\ local' = [local EXCEPT ![entry.id].buffer =
                            files[entry.id][local[entry.id].imagePreviewSuffix]]
            /\ UNCHANGED <<sink, running, currentErrors, warnings, tripped, streak>>
    /\ event' = Event("readEntryFileCb", entry.id, err, 0, NoFile)
    /\ UNCHANGED <<concurrent, source, consumed, remote, disk, files>>

\* A slip: the error branch of the read returns without calling back.
readEntryFileCbNoCb(entry, err) ==
    /\ pc[entry.id] = "readEntryFile"
    /\ err \in disk[entry.id]
    /\ IF err
       THEN /\ pc' = [pc EXCEPT ![entry.id] = "done"]
            /\ local' = [local EXCEPT ![entry.id] = noLocal]
            /\ UNCHANGED <<sink, running>>
       ELSE /\ pc' = [pc EXCEPT ![entry.id] = "request"]
            /\ local' = [local EXCEPT ![entry.id].buffer =
                            files[entry.id][local[entry.id].imagePreviewSuffix]]
            /\ UNCHANGED <<sink, running>>
    /\ event' = Event("readEntryFileCb", entry.id, err, 0, NoFile)
    /\ UNCHANGED <<concurrent, source, consumed, remote, disk, files,
                   currentErrors, warnings, tripped, streak>>

\* A slip: no return after cb() in the error branch of the read, so the
\* request is sent all the same.
readEntryFileCbNoReturn(entry, err) ==
    /\ pc[entry.id] = "readEntryFile"
    /\ err \in disk[entry.id]
    /\ IF err
       THEN /\ cb(entry)
            /\ pc' = [pc EXCEPT ![entry.id] = "request"]
            /\ local' = [local EXCEPT ![entry.id].buffer = NoFile]
       ELSE /\ pc' = [pc EXCEPT ![entry.id] = "request"]
            /\ local' = [local EXCEPT ![entry.id].buffer =
                            files[entry.id][local[entry.id].imagePreviewSuffix]]
            /\ UNCHANGED <<sink, running>>
    /\ event' = Event("readEntryFileCb", entry.id, err, 0, NoFile)
    /\ UNCHANGED <<concurrent, source, consumed, remote, disk, files,
                   currentErrors, warnings, tripped, streak>>

\* The callback of storage.readEntryFile: on an error the task ends, otherwise
\* the request is sent with the buffer as its body.
readEntryFileCb(entry, err) ==
    /\ pc[entry.id] = "readEntryFile"
    /\ err \in disk[entry.id]
    /\ IF err
       THEN /\ cb(entry)
            /\ pc' = [pc EXCEPT ![entry.id] = "done"]
            /\ local' = [local EXCEPT ![entry.id] = noLocal]
       ELSE /\ pc' = [pc EXCEPT ![entry.id] = "request"]
            /\ local' = [local EXCEPT ![entry.id].buffer =
                            files[entry.id][local[entry.id].imagePreviewSuffix]]
            /\ UNCHANGED <<sink, running>>
    /\ event' = Event("readEntryFileCb", entry.id, err, 0, NoFile)
    /\ UNCHANGED <<concurrent, source, consumed, remote, disk, files,
                   currentErrors, warnings, tripped, streak>>

\* A slip: no return after cb() in the branch of the bad status, so the
\* body is written all the same.
requestCbNoReturn(entry, res) ==
    /\ pc[entry.id] = "request"
    /\ res \in remote[entry.id]
    /\ IF res.err
       THEN /\ addError
            /\ cb(entry)
            /\ pc' = [pc EXCEPT ![entry.id] = "done"]
            /\ local' = [local EXCEPT ![entry.id] = noLocal]
       ELSE IF badStatus(res.statusCode)
       THEN /\ addError
            /\ cb(entry)
            /\ pc' = [pc EXCEPT ![entry.id] = "writeEntryFile"]
            /\ local' = [local EXCEPT ![entry.id].body = res.body]
       ELSE /\ pc' = [pc EXCEPT ![entry.id] = "writeEntryFile"]
            /\ local' = [local EXCEPT ![entry.id].body = res.body]
            /\ UNCHANGED <<sink, running, currentErrors, warnings, tripped, streak>>
    /\ event' = Event("requestCb", entry.id, res.err, res.statusCode, res.body)
    /\ UNCHANGED <<concurrent, source, consumed, remote, disk, files>>

\* A slip: a request that failed in transport is sent again.
requestCbRetry(entry, res) ==
    /\ pc[entry.id] = "request"
    /\ res \in remote[entry.id]
    /\ IF res.err
       THEN /\ addError
            /\ UNCHANGED <<sink, running, pc, local>>
       ELSE IF badStatus(res.statusCode)
       THEN /\ addError
            /\ cb(entry)
            /\ pc' = [pc EXCEPT ![entry.id] = "done"]
            /\ local' = [local EXCEPT ![entry.id] = noLocal]
       ELSE /\ pc' = [pc EXCEPT ![entry.id] = "writeEntryFile"]
            /\ local' = [local EXCEPT ![entry.id].body = res.body]
            /\ UNCHANGED <<sink, running, currentErrors, warnings, tripped, streak>>
    /\ event' = Event("requestCb", entry.id, res.err, res.statusCode, res.body)
    /\ UNCHANGED <<concurrent, source, consumed, remote, disk, files>>

\* The callback of request: a transport error and a bad status count as an
\* error and end the task, otherwise the body is handed to the store.
requestCb(entry, res) ==
    /\ pc[entry.id] = "request"
    /\ res \in remote[entry.id]
    /\ IF res.err
       THEN /\ addError
            /\ cb(entry)
            /\ pc' = [pc EXCEPT ![entry.id] = "done"]
            /\ local' = [local EXCEPT ![entry.id] = noLocal]
       ELSE IF badStatus(res.statusCode)
       THEN /\ addError
            /\ cb(entry)
            /\ pc' = [pc EXCEPT ![entry.id] = "done"]
            /\ local' = [local EXCEPT ![entry.id] = noLocal]
       ELSE /\ pc' = [pc EXCEPT ![entry.id] = "writeEntryFile"]
            /\ local' = [local EXCEPT ![entry.id].body = res.body]
            /\ UNCHANGED <<sink, running, currentErrors, warnings, tripped, streak>>
    /\ event' = Event("requestCb", entry.id, res.err, res.statusCode, res.body)
    /\ UNCHANGED <<concurrent, source, consumed, remote, disk, files>>

\* A slip: the buffer of the request written in place of the body.
writeEntryFileCbBuffer(entry, err) ==
    /\ pc[entry.id] = "writeEntryFile"
    /\ err \in disk[entry.id]
    /\ IF err
       THEN UNCHANGED <<files, currentErrors, warnings, tripped, streak>>
       ELSE /\ files' = [files EXCEPT ![entry.id][entrySuffix] = local[entry.id].buffer]
            /\ decError
    /\ cb(entry)
    /\ pc' = [pc EXCEPT ![entry.id] = "done"]
    /\ local' = [local EXCEPT ![entry.id] = noLocal]
    /\ event' = Event("writeEntryFileCb", entry.id, err, 0, NoFile)
    /\ UNCHANGED <<concurrent, source, consumed, remote, disk>>

\* A slip: the error branch calls back by itself and the common cb() follows.
writeEntryFileCbTwice(entry, err) ==
    /\ pc[entry.id] = "writeEntryFile"
    /\ err \in disk[entry.id]
    /\ IF err
       THEN /\ sink' = sink (+) SetToBag({entry}) (+) SetToBag({entry})
            /\ running' = running - 2
            /\ UNCHANGED <<files, currentErrors, warnings, tripped, streak>>
       ELSE /\ files' = [files EXCEPT ![entry.id][entrySuffix] = local[entry.id].body]
            /\ decError
            /\ cb(entry)
    /\ pc' = [pc EXCEPT ![entry.id] = "done"]
    /\ local' = [local EXCEPT ![entry.id] = noLocal]
    /\ event' = Event("writeEntryFileCb", entry.id, err, 0, NoFile)
    /\ UNCHANGED <<concurrent, source, consumed, remote, disk>>

\* The callback of storage.writeEntryFile: a written result lowers the
\* counter; the task ends either way.
writeEntryFileCb(entry, err) ==
    /\ pc[entry.id] = "writeEntryFile"
    /\ err \in disk[entry.id]
    /\ IF err
       THEN UNCHANGED <<files, currentErrors, warnings, tripped, streak>>
       ELSE /\ files' = [files EXCEPT ![entry.id][entrySuffix] = local[entry.id].body]
            /\ decError
    /\ cb(entry)
    /\ pc' = [pc EXCEPT ![entry.id] = "done"]
    /\ local' = [local EXCEPT ![entry.id] = noLocal]
    /\ event' = Event("writeEntryFileCb", entry.id, err, 0, NoFile)
    /\ UNCHANGED <<concurrent, source, consumed, remote, disk>>

(***************************************************************************)
(* Initial states: a stream of entries, the files the Entry Store holds    *)
(* for them, the environment, and the dispatcher as apiServerEntry         *)
(* constructs it.                                                          *)
(***************************************************************************)
FileStates == [Suffixes -> {NoFile, Jpeg}]
EntryKinds == [type : Types, files : FileStates]

\* an image with every preview and no result yet
plainFiles == [s \in Suffixes |-> IF s = entrySuffix THEN NoFile ELSE Jpeg]

\* a stream of n entries: plain images, but for entry odd, which is of kind
InitStream(n, odd, kind) ==
    /\ source = [i \in 1..n |-> [id |-> i,
                                 type |-> IF i = odd THEN kind.type ELSE "image"]]
    /\ files = [i \in 1..n |-> IF i = odd THEN kind.files ELSE plainFiles]

\* the disable setting: absent, one name, or a list of names
Absent == [form |-> "absent", name |-> "", names |-> <<>>]

\* no second dispatcher, and no call of writeIndex
NoInstance == [adapter |-> "none"]
NoIndex == [pc |-> "none"]

\* objectDetection with nothing disabled, alone, in its first run
InitObjectDetection ==
    /\ adapter = "objectDetection"
    /\ disable = Absent
    /\ run = 1
    /\ other = NoInstance
    /\ index = NoIndex

InitDispatcher ==
    /\ consumed = 0
    /\ sink = EmptyBag
    /\ running = 0
    /\ currentErrors = 0
    /\ warnings = 0
    /\ pc = [i \in Ids |-> "queued"]
    /\ local = [i \in Ids |-> noLocal]
    /\ event = Event("init", 0, FALSE, 0, NoFile)
    /\ tripped = FALSE
    /\ streak = [f |-> 0, s |-> 0]

\* One entry of the stream is of any kind; every request may fail or be
\* served, and every access to the store may fail.
Init ==
    /\ InitObjectDetection
    /\ concurrent \in 1..MaxConcurrent
    /\ \E odd \in 1..MaxEntries, kind \in EntryKinds : InitStream(MaxEntries, odd, kind)
    /\ remote = [i \in Ids |-> Responses(i)]
    /\ disk = [i \in Ids |-> BOOLEAN]
    /\ InitDispatcher

\* An outage of the api server over a longer stream: the requests of the
\* first down entries fail and the others are served, while the store works.
\* Either the stream is of plain images, or the server is down for the whole
\* stream and the first or the last entry is of any kind.
InitOutage ==
    /\ InitObjectDetection
    /\ concurrent \in 1..MaxConcurrent
    /\ \E down \in 0..OutageEntries, odd \in {1, OutageEntries}, kind \in EntryKinds :
          /\ down = OutageEntries \/ kind = [type |-> "image", files |-> plainFiles]
          /\ InitStream(OutageEntries, odd, kind)
          /\ remote = [i \in Ids |-> IF i <= down THEN Down(i) ELSE Up(i)]
    /\ disk = [i \in Ids |-> {FALSE}]
    /\ InitDispatcher

\* a step of a handler of the dispatcher
Alone(A) == A /\ UNCHANGED outside

Next ==
    \/ Alone(parallel)
    \/ \E i \in Ids, err \in BOOLEAN : Alone(readEntryFileCb(source[i], err))
    \/ \E i \in Ids : \E res \in Responses(i) : Alone(requestCb(source[i], res))
    \/ \E i \in Ids, err \in BOOLEAN : Alone(writeEntryFileCb(source[i], err))

Spec == Init /\ [][Next]_vars

SpecOutage == InitOutage /\ [][Next]_vars

(***************************************************************************)
(* Properties.                                                             *)
(***************************************************************************)
InFlightPcs == {"readEntryFile", "request", "writeEntryFile"}
InFlight == {i \in Ids : pc[i] \in InFlightPcs}
Emitted(i) == CopiesIn(source[i], sink)
\* the step is the dispatcher taking the next entry of the stream
Takes(i) == consumed = i - 1 /\ consumed' = i

\* C1: every entry is emitted at most once and as it came in, exactly when
\* its task is over (so never before the task of an admitted entry has
\* called back, and once when the run is over); an entry the predicate
\* rejects is emitted in the step that tests it, and nothing is read,
\* requested or written for it, then or later.
C1_EmitOnceAfterTask ==
    [][ /\ \A i \in Ids : Emitted(i)' = IF pc'[i] = "done" THEN 1 ELSE 0
        /\ BagToSet(sink') \subseteq {source[i] : i \in Ids}
        /\ \A i \in Ids : pc[i] = "done" =>
              pc'[i] = "done" /\ files'[i] = files[i] /\ local'[i] = local[i]
        /\ \A i \in Ids : (Takes(i) /\ ~test(source[i])) =>
              /\ pc'[i] = "done" /\ Emitted(i)' = 1
              /\ files' = files /\ local' = local /\ running' = running
              /\ currentErrors' = currentErrors
        /\ \A i \in Ids : (Takes(i) /\ test(source[i])) =>
              pc'[i] = "readEntryFile" /\ Emitted(i)' = 0
      ]_vars

\* The run is over, every entry is out once; one entry was rejected for its
\* type and one went through read, request and write.
C1_Witness ==
    /\ consumed = Len(source) /\ running = 0
    /\ \A i \in Ids : pc[i] = "done" /\ Emitted(i) = 1
    /\ \E i \in Ids : source[i].type = "video"
    /\ \E i \in Ids : files[i][entrySuffix] = bodyOf(i)

\* an entry of a supported type with a preview and without the result
Enrichable(i) ==
    /\ source[i].type \in {"image", "rawImage"}
    /\ \E k \in 1..Len(imagePreviewSuffixes) : files[i][imagePreviewSuffixes[k]] # NoFile
    /\ files[i][entrySuffix] = NoFile

\* C2 as stated: once the counter has exceeded the threshold, the
\* predicate is false for every entry tested later in the run.
C2_RejectsForRestOfRun ==
    [][ \A i \in Ids : (tripped /\ Takes(i)) => ~test(source[i]) ]_vars

\* C2, amended: an entry tested while the counter is above the threshold is
\* rejected and passes through with no task; with a concurrency limit of 1
\* the counter, once above the threshold, stays above it to the end of the run.
C2_RejectsWhileAbove ==
    [][ /\ \A i \in Ids : (currentErrors > ERROR_THRESHOLD /\ Takes(i)) =>
              ~test(source[i]) /\ pc'[i] = "done" /\ running' = running
        /\ (concurrent = 1 /\ tripped') => currentErrors' > ERROR_THRESHOLD
      ]_vars

\* The dispatcher has just tested an enrichable entry with the counter
\* above the threshold and passed it through.
C2_Witness ==
    /\ event.op = "parallel" /\ Enrichable(event.id)
    /\ currentErrors > ERROR_THRESHOLD
    /\ pc[event.id] = "done" /\ Emitted(event.id) = 1

\* C3: the 'Too many errors' warning is logged once, when the counter
\* first exceeds the threshold, and never again in the run.
C3_WarnsOnce == warnings = IF tripped THEN 1 ELSE 0

\* C4: six increments followed by six decrements bring the counter from 0
\* back to 0 (and f increments followed by s decrements leave max(f - s, 0));
\* an enrichable entry tested with the counter at or below the threshold is
\* admitted, whether or not the counter was above the threshold before.
C4_RecoversFromLiveCounter ==
    [][ /\ (streak'.f = ERROR_THRESHOLD + 1 /\ streak'.s = ERROR_THRESHOLD + 1)
              => currentErrors' = 0
        /\ streak'.f >= 0 =>
              currentErrors' = IF streak'.f > streak'.s THEN streak'.f - streak'.s ELSE 0
        /\ \A i \in Ids : (Takes(i) /\ currentErrors <= ERROR_THRESHOLD /\ Enrichable(i)) =>
              test(source[i]) /\ pc'[i] = "readEntryFile"
      ]_vars

\* Six failures took the counter above the threshold, six written results
\* took it back to 0, and the entry tested last was admitted after the trip.
C4_Witness ==
    /\ tripped /\ currentErrors = 0
    /\ streak = [f |-> ERROR_THRESHOLD + 1, s |-> ERROR_THRESHOLD + 1]
    /\ \E i \in Ids : consumed = i /\ files[i][entrySuffix] = bodyOf(i)

\* C5: at most concurrent tasks are started and not yet called back, so
\* at most concurrent requests are outstanding, and the dispatcher's own
\* count of running tasks is the number of tasks in flight.
C5_AtMostNInFlight ==
    /\ Cardinality(InFlight) <= concurrent
    /\ Cardinality({i \in Ids : pc[i] = "request"}) <= concurrent
    /\ running = Cardinality(InFlight)

\* With a limit of 2, two requests are outstanding and a third enrichable
\* entry waits in the stream.
C5_Witness ==
    /\ concurrent = 2
    /\ Cardinality({i \in Ids : pc[i] = "request"}) = concurrent
    /\ consumed < Len(source) /\ Enrichable(consumed + 1)

\* the reference predicate of the specification
eligible(entry) ==
    /\ currentErrors <= ERROR_THRESHOLD
    /\ \E k \in 1..Len(imagePreviewSuffixes) :
          files[entry.id][imagePreviewSuffixes[k]] # NoFile
    /\ files[entry.id][entrySuffix] = NoFile
    /\ entry.type \in {"image", "rawImage"}

\* C6: in every state and for every entry, test is true exactly when the
\* counter is at most the threshold, a preview exists, the result does not
\* exist and the type is image or rawImage; it is false for every other type.
C6_TestIsReference ==
    /\ \A i \in Ids : test(source[i]) = eligible(source[i])
    /\ \A i \in Ids : source[i].type \notin {"image", "rawImage"} => ~test(source[i])

\* The counter is above the threshold while the stream holds an image that
\* is rejected for that alone, next to a video with a preview and no result.
C6_Witness ==
    /\ currentErrors > ERROR_THRESHOLD
    /\ \E i \in Ids : Enrichable(i) /\ pc[i] = "queued"
    /\ \E i \in Ids : /\ source[i].type = "video"
                      /\ files[i] = [plainFiles EXCEPT ![imagePreviewSuffixes[1]] = NoFile]

\* C7: the counter is the same after the callback of a read and after the
\* callback of a failed write as it was before; it grows only in the
\* callback of the request and shrinks only in the callback of a write
\* that succeeded.
C7_LocalIoKeepsCounter ==
    [][ /\ event'.op = "readEntryFileCb" => currentErrors' = currentErrors
        /\ (event'.op = "writeEntryFileCb" /\ event'.err) => currentErrors' = currentErrors
        /\ currentErrors' > currentErrors => event'.op = "requestCb"
        /\ currentErrors' < currentErrors =>
              event'.op = "writeEntryFileCb" /\ ~event'.err
      ]_vars

\* A write has just failed after a success status, with the counter at 1
\* from the failed request of another entry.
C7_Witness ==
    /\ event.op = "writeEntryFileCb" /\ event.err
    /\ currentErrors = 1
    /\ pc[event.id] = "done" /\ files[event.id][entrySuffix] = NoFile

\* C8: when the request ends with a transport error or with a status below
\* 100 or at or above 300, no file is written, the counter grows by 1 and
\* the task is over: the entry is emitted and nothing is pending for it.
C8_RemoteFailure ==
    [][ \A i \in Ids :
           ( /\ event'.op = "requestCb" /\ event'.id = i /\ pc[i] = "request"
             /\ event'.err \/ event'.statusCode < 100 \/ event'.statusCode >= 300 )
           => /\ files' = files
              /\ currentErrors' = currentErrors + 1
              /\ pc'[i] = "done" /\ Emitted(i)' = 1
              /\ running' = running - 1
      ]_vars

\* The server has just answered 500 for the first failure of the run.
C8_Witness ==
    /\ event.op = "requestCb" /\ ~event.err /\ event.statusCode = 500
    /\ currentErrors = 1
    /\ pc[event.id] = "done" /\ files[event.id][entrySuffix] = NoFile

\* C9: a response with a status in [100, 300) leaves the counter alone and
\* hands its body to the store; when the write succeeds the store holds
\* that body under the output suffix of the entry and nothing else changed
\* in it, and the counter is one less if it was positive and 0 if it was 0.
C9_SuccessWritesBody ==
    [][ \A i \in Ids :
          /\ ( /\ event'.op = "requestCb" /\ event'.id = i /\ pc[i] = "request"
               /\ ~event'.err /\ event'.statusCode >= 100 /\ event'.statusCode < 300 )
             => /\ currentErrors' = currentErrors
                /\ pc'[i] = "writeEntryFile"
                /\ local'[i].body = event'.body
                /\ files' = files
          /\ ( /\ event'.op = "writeEntryFileCb" /\ event'.id = i
               /\ pc[i] = "writeEntryFile" /\ ~event'.err )
             => /\ files' = [files EXCEPT ![i][entrySuffix] = local[i].body]
                /\ \E r \in remote[i] : ~r.err /\ r.body = files'[i][entrySuffix]
                /\ currentErrors' = IF currentErrors > 0 THEN currentErrors - 1 ELSE 0
      ]_vars

\* The result of an entry has just been written with the body the server
\* computes for it, and the counter went from 1 to 0.
C9_Witness ==
    /\ event.op = "writeEntryFileCb" /\ ~event.err
    /\ files[event.id][entrySuffix] = bodyOf(event.id)
    /\ streak = [f |-> 1, s |-> 1] /\ currentErrors = 0

\* C10: the counter is never negative; a decrement lowers it by 1 and
\* stops at 0.
C10_CounterNotNegative ==
    [][ /\ currentErrors' >= 0
        /\ currentErrors' >= currentErrors - 1
        /\ (event'.op = "writeEntryFileCb" /\ ~event'.err /\ currentErrors = 0)
              => currentErrors' = 0
      ]_vars

\* A result has just been written in a run without any failure so far: the
\* decrement met the counter at 0.
C10_Witness ==
    /\ event.op = "writeEntryFileCb" /\ ~event.err
    /\ streak.f = 0 /\ streak.s >= 1
    /\ currentErrors = 0


(***************************************************************************)
(* The run under fair scheduling: the stream hands over the next entry     *)
(* whenever a slot is free, and the store and the api server answer every  *)
(* call that is pending.                                                   *)
(***************************************************************************)
readEntryFileCalls == \E i \in Ids, err \in BOOLEAN : readEntryFileCb(source[i], err)
requestCalls == \E i \in Ids : \E res \in Responses(i) : requestCb(source[i], res)
writeEntryFileCalls == \E i \in Ids, err \in BOOLEAN : writeEntryFileCb(source[i], err)

\* A stream of plain images with, at any position, one entry the predicate
\* rejects; every request may fail or be served, every store access may fail.
InitFair ==
    /\ InitObjectDetection
    /\ concurrent \in 1..MaxConcurrent
    /\ \E odd \in 1..MaxEntries, type \in {"image", "video"} :
          InitStream(MaxEntries, odd, [type |-> type, files |-> plainFiles])
    /\ remote = [i \in Ids |-> Responses(i)]
    /\ disk = [i \in Ids |-> BOOLEAN]
    /\ InitDispatcher

SpecFair ==
    /\ InitFair
    /\ [][Next]_vars
    /\ WF_vars(Alone(parallel))
    /\ WF_vars(Alone(readEntryFileCalls))
    /\ WF_vars(Alone(requestCalls))
    /\ WF_vars(Alone(writeEntryFileCalls))

\* the stream is used up, every task has called back, every entry is out
RunOver ==
    /\ consumed = Len(source)
    /\ running = 0
    /\ \A i \in Ids : pc[i] = "done" /\ Emitted(i) = 1

\* C11: when every pending call of the store and of the api server is
\* answered, every task that was started calls back, whatever its outcome,
\* and the run ends with every entry of the stream emitted.
C11_RunCompletes ==
    /\ \A i \in 1..MaxEntries :
          (pc[i] \in InFlightPcs) ~> (pc[i] = "done" /\ Emitted(i) = 1)
    /\ <>[]RunOver

\* the run is over after a failed request, a failed write and a failed read
C11_Witness ==
    /\ RunOver
    /\ currentErrors = 1
    /\ event.op = "readEntryFileCb" /\ event.err
    /\ \E i \in Ids : files[i][entrySuffix] = bodyOf(i) /\ Enrichable(i) = FALSE

\* the step sends the request of entry i
Requests(i) == pc[i] # "request" /\ pc'[i] = "request"

\* C12 as stated: while the counter is above the threshold no request is
\* sent, not even by a task that was reading its input when the counter
\* crossed the threshold.
C12_NoRequestWhileAbove ==
    [][currentErrors > ERROR_THRESHOLD => \A i \in Ids : ~Requests(i)]_vars

\* C12, amended: while the counter is above the threshold no task is
\* started; the requests sent in that time are those of tasks that were
\* admitted before and are past their read, fewer than concurrent of them.
C12_OnlyAdmittedRequestWhileAbove ==
    [][currentErrors > ERROR_THRESHOLD =>
          /\ \A i \in Ids : pc[i] = "queued" => pc'[i] \in {"queued", "done"}
          /\ \A i \in Ids : Requests(i) =>
                /\ pc[i] = "readEntryFile"
                /\ event' = Event("readEntryFileCb", i, FALSE, 0, NoFile)
          /\ Cardinality({i \in Ids : pc[i] = "readEntryFile"}) < concurrent]_vars

\* the read of a task admitted before the crossing has succeeded at a counter
\* above the threshold, and its request is out
C12_Witness ==
    /\ currentErrors > ERROR_THRESHOLD
    /\ event.op = "readEntryFileCb" /\ ~event.err
    /\ pc[event.id] = "request"
    /\ local[event.id].buffer = Jpeg

\* the stages of a task, in the order of the code
Rank(p) ==
    CASE p = "queued" -> 0
      [] p = "readEntryFile" -> 1
      [] p = "request" -> 2
      [] p = "writeEntryFile" -> 3
      [] p = "done" -> 4

\* the step is the callback of the request of entry i, with a failure
RequestFails(i) ==
    /\ event'.op = "requestCb" /\ event'.id = i
    /\ event'.err \/ event'.statusCode < 100 \/ event'.statusCode >= 300

\* the step is the callback of the request of entry i, with a success status
RequestServed(i) ==
    /\ event'.op = "requestCb" /\ event'.id = i
    /\ ~event'.err /\ event'.statusCode >= 100 /\ event'.statusCode < 300

\* C14: nothing is retried: a task never goes back to a stage it has left,
\* so an entry gets at most one request and at most one write in a run; the
\* write is started only by a request served with a success status; a
\* failed request ends the task, and a task that is over stays over.
C14_NoRetry ==
    [][\A i \in Ids :
          /\ Rank(pc'[i]) >= Rank(pc[i])
          /\ Requests(i) => pc[i] = "readEntryFile"
          /\ (pc[i] = "request" /\ event'.op = "requestCb" /\ event'.id = i)
                => pc'[i] # "request"
          /\ RequestFails(i) => pc'[i] = "done" /\ files' = files
          /\ (pc[i] # "writeEntryFile" /\ pc'[i] = "writeEntryFile")
                => pc[i] = "request" /\ RequestServed(i)
          /\ files'[i] # files[i] => pc[i] = "writeEntryFile" /\ pc'[i] = "done"]_vars

\* the request of an entry has failed and its task is over, while the
\* result of another entry is written
C14_Witness ==
    /\ event.op = "requestCb" /\ event.err
    /\ pc[event.id] = "done" /\ files[event.id][entrySuffix] = NoFile
    /\ \E j \in Ids : /\ j # event.id
                       /\ pc[j] = "done"
                       /\ source[j].type = "image"
                       /\ files[j][entrySuffix] = bodyOf(j)
                       /\ files[j][imagePreviewSuffixes[1]] = Jpeg

\* C18: the counter and the number of tasks in flight together never exceed
\* the threshold plus the concurrency limit; so the counter stays at or
\* below ERROR_THRESHOLD + concurrent, and above the threshold fewer than
\* concurrent tasks are left to fail.
C18_CounterPlusInFlight ==
    /\ currentErrors + Cardinality(InFlight) <= ERROR_THRESHOLD + concurrent
    /\ currentErrors <= ERROR_THRESHOLD + concurrent
    /\ currentErrors > ERROR_THRESHOLD =>
          Cardinality(InFlight) <= ERROR_THRESHOLD + concurrent - currentErrors

\* the counter has reached the threshold plus a limit of 2: both tasks that
\* were in flight at counter 5 have failed
C18_Witness ==
    /\ concurrent = 2
    /\ currentErrors = ERROR_THRESHOLD + concurrent
    /\ InFlight = {}
    /\ event.op = "requestCb"

\* the counter is above the threshold and no task is in flight
Latched == currentErrors > ERROR_THRESHOLD /\ InFlight = {}

\* C19: with the counter above the threshold and no task in flight, the
\* counter does not change any more and every entry taken from then on
\* passes through with no read, request or write; with a concurrency limit
\* of 1 that is the state at every trip; and the counter goes down from above
\* the threshold only by the write of a task that was already in flight.
C19_Latch ==
    /\ [](concurrent = 1 /\ currentErrors > ERROR_THRESHOLD => Latched)
    /\ [][Latched =>
             /\ Latched'
             /\ currentErrors' = currentErrors
             /\ files' = files /\ local' = local /\ running' = running
             /\ \A i \in Ids : Takes(i) => pc'[i] = "done" /\ Emitted(i)' = 1]_vars
    /\ [][(currentErrors > ERROR_THRESHOLD /\ currentErrors' < currentErrors) =>
             \E i \in InFlight : /\ pc[i] = "writeEntryFile" /\ pc'[i] = "done"
                                  /\ currentErrors' = currentErrors - 1]_vars

\* the run has ended latched: the sixth failure came with nothing else in
\* flight, and the entries after it, enrichable still, went through untouched
C19_Witness ==
    /\ Latched
    /\ currentErrors = ERROR_THRESHOLD + 1
    /\ consumed = Len(source)
    /\ event.op = "parallel"
    /\ \A i \in Ids : pc[i] = "done" /\ Emitted(i) = 1
    /\ Cardinality({i \in Ids : Enrichable(i)}) = Len(source)

\* the step calls cb for entry i: the entry is pushed and a slot is freed
CallsBack(i) == Emitted(i)' = Emitted(i) + 1 /\ running' = running - 1

\* the step of entry i is one of the steps of the protocol of a task, with
\* cb called in the last step of each of the five outcomes and in no other
ProtocolStep(i) ==
    \/ /\ pc[i] = "queued" /\ pc'[i] = "readEntryFile"
       /\ event'.op = "parallel" /\ Emitted(i)' = Emitted(i)
    \/ /\ pc[i] = "readEntryFile" /\ pc'[i] = "request"
       /\ event' = Event("readEntryFileCb", i, FALSE, 0, NoFile)
       /\ Emitted(i)' = Emitted(i)
    \/ /\ pc[i] = "readEntryFile" /\ pc'[i] = "done"
       /\ event' = Event("readEntryFileCb", i, TRUE, 0, NoFile)
       /\ CallsBack(i)
    \/ /\ pc[i] = "request" /\ pc'[i] = "writeEntryFile"
       /\ RequestServed(i) /\ Emitted(i)' = Emitted(i)
    \/ /\ pc[i] = "request" /\ pc'[i] = "done"
       /\ RequestFails(i) /\ CallsBack(i)
    \/ /\ pc[i] = "writeEntryFile" /\ pc'[i] = "done"
       /\ event'.op = "writeEntryFileCb" /\ event'.id = i
       /\ CallsBack(i)

\* C20: a task reads, then posts, then writes: the request follows a
\* successful read only, the write a success status only, and cb is called
\* once, in the last step of the outcome the task takes: read error,
\* transport error, bad status, write error, written result.
C20_TaskProtocol ==
    /\ [][\A i \in Ids :
             /\ (pc[i] \in InFlightPcs \/ pc'[i] \in InFlightPcs)
                   => (pc'[i] = pc[i] /\ Emitted(i)' = Emitted(i)) \/ ProtocolStep(i)
             /\ pc[i] = "done" => pc'[i] = "done" /\ Emitted(i)' = Emitted(i)]_vars
    /\ [](\A i \in Ids : /\ pc[i] \in InFlightPcs => Emitted(i) = 0
                         /\ pc[i] = "done" => Emitted(i) = 1)

\* a task has ended with a write error after its read and its request went
\* well, and the task of another entry is over with no result written, at a
\* counter of 0
C20_Witness ==
    /\ event.op = "writeEntryFileCb" /\ event.err
    /\ pc[event.id] = "done" /\ Emitted(event.id) = 1
    /\ files[event.id][entrySuffix] = NoFile
    /\ \E j \in Ids : /\ j # event.id /\ pc[j] = "done" /\ Enrichable(j)
                       /\ currentErrors = 0

(***************************************************************************)
(* A second run: when the stream of the first run has ended, the adapter   *)
(* is called again and builds a new dispatcher over the same stream, with  *)
(* the Entry Store as the first run left it.                               *)
(***************************************************************************)
restart ==
    /\ run = 1
    /\ consumed = Len(source)
    /\ running = 0
    /\ run' = 2
    /\ consumed' = 0
    /\ sink' = EmptyBag
    /\ running' = 0
    /\ currentErrors' = 0
    /\ warnings' = 0
    /\ pc' = [i \in Ids |-> "queued"]
    /\ local' = [i \in Ids |-> noLocal]
    /\ event' = Event("init", 0, FALSE, 0, NoFile)
    /\ tripped' = FALSE
    /\ streak' = [f |-> 0, s |-> 0]
    /\ UNCHANGED <<concurrent, source, files, remote, disk>>
    /\ UNCHANGED <<adapter, disable, other, index>>

NextRerun ==
    \/ Next
    \/ restart

\* One entry of the stream is of any kind; every request may fail or be
\* served with status 200, and every access to the store may fail.
InitRerun ==
    /\ InitObjectDetection
    /\ concurrent \in 1..MaxConcurrent
    /\ \E odd \in 1..MaxEntries, kind \in EntryKinds : InitStream(MaxEntries, odd, kind)
    /\ remote = [i \in Ids |-> Down(i) \cup Up(i)]
    /\ disk = [i \in Ids |-> BOOLEAN]
    /\ InitDispatcher

SpecRerun == InitRerun /\ [][NextRerun]_vars

\* entry i has its result already, or has none of the input files
NothingToDo(i) ==
    \/ files[i][entrySuffix] # NoFile
    \/ \A k \in 1..Len(imagePreviewSuffixes) : files[i][imagePreviewSuffixes[k]] = NoFile

\* C13: an entry that has its result already, or none of the input files,
\* passes through with no read, request or write; no task is ever in flight
\* for an entry that has its result; and in a second run over a stream in
\* which no entry is left to enrich no task is started and the store is
\* left as it is.
C13_Idempotent ==
    /\ [][\A i \in Ids : (Takes(i) /\ NothingToDo(i)) =>
             /\ pc'[i] = "done" /\ Emitted(i)' = 1
             /\ files' = files /\ local' = local /\ running' = running
             /\ currentErrors' = currentErrors]_vars
    /\ [](\A i \in Ids : files[i][entrySuffix] # NoFile => pc[i] \notin InFlightPcs)
    /\ [][(run = 2 /\ \A i \in Ids : ~Enrichable(i)) =>
             /\ files' = files
             /\ \A i \in Ids : pc'[i] \notin InFlightPcs
             /\ currentErrors' = 0]_vars

\* the second run is over: the three images of the stream, enriched by the
\* first run, have all passed through
C13_Witness ==
    /\ run = 2
    /\ RunOver
    /\ event.op = "parallel"
    /\ currentErrors = 0
    /\ \A i \in Ids : /\ source[i].type = "image"
                       /\ files[i][entrySuffix] = bodyOf(i)
                       /\ files[i][imagePreviewSuffixes[1]] = Jpeg

(***************************************************************************)
(* The adapters: each looks up its feature in the disable setting and      *)
(* returns the pass-through stage noop() or the dispatcher of               *)
(* apiServerEntry.                                                         *)
(***************************************************************************)
FeatureNames == {featureOf(a) : a \in Adapters}
DisableLists == UNION {[1..k -> FeatureNames] : k \in 0..MaxDisable}
DisableSettings ==
    {Absent}
    \cup {[form |-> "name", name |-> n, names |-> <<>>] : n \in FeatureNames}
    \cup {[form |-> "list", name |-> "", names |-> l] : l \in DisableLists}

\* A slip: only the list form of the setting is understood.
isDisabledListOnly(config, feature) ==
    LET setting == IF config.form = "absent"
                   THEN [form |-> "list", name |-> "", names |-> <<>>]
                   ELSE config
    IN  IF setting.form = "list"
        THEN \E k \in 1..Len(setting.names) : setting.names[k] = feature
        ELSE FALSE

\* isDisabled(config, feature): disable || [] is searched when it is an
\* array and compared with the feature otherwise.
isDisabled(config, feature) ==
    LET setting == IF config.form = "absent"
                   THEN [form |-> "list", name |-> "", names |-> <<>>]
                   ELSE config
    IN  IF setting.form = "list"
        THEN \E k \in 1..Len(setting.names) : setting.names[k] = feature
        ELSE setting.name = feature

\* noop(): through((entry, _, cb) => cb(null, entry))
noop ==
    /\ consumed < Len(source)
    /\ consumed' = consumed + 1
    /\ sink' = sink (+) SetToBag({source[consumed + 1]})
    /\ pc' = [pc EXCEPT ![source[consumed + 1].id] = "done"]
    /\ event' = Event("noop", source[consumed + 1].id, FALSE, 0, NoFile)
    /\ UNCHANGED <<concurrent, source, running, files, remote, disk, currentErrors,
                   warnings, local, tripped, streak>>
    /\ UNCHANGED outside

\* the adapter returns apiServerEntry(...)
Enabled == ~isDisabled(disable, featureOf(adapter))

\* the steps of the stage the adapter returns
NextAdapters ==
    \/ ~Enabled /\ noop
    \/ Enabled /\ Alone(parallel)
    \/ \E i \in Ids, err \in BOOLEAN :
          Enabled /\ Alone(readEntryFileCb(source[i], err))
    \/ \E i \in Ids : \E res \in Responses(i) :
          Enabled /\ Alone(requestCb(source[i], res))
    \/ \E i \in Ids, err \in BOOLEAN :
          Enabled /\ Alone(writeEntryFileCb(source[i], err))

\* Any adapter under any disable setting, over a stream of images with one
\* entry of another type, with the api server and the store at work.
InitAdapters ==
    /\ adapter \in Adapters
    /\ disable \in DisableSettings
    /\ run = 1
    /\ other = NoInstance
    /\ index = NoIndex
    /\ concurrent \in 1..MaxConcurrent
    /\ \E odd \in 1..MaxEntries, type \in {"image", "video"} :
          InitStream(MaxEntries, odd, [type |-> type, files |-> plainFiles])
    /\ remote = [i \in Ids |-> Up(i)]
    /\ disk = [i \in Ids |-> {FALSE}]
    /\ InitDispatcher

SpecAdapters == InitAdapters /\ [][NextAdapters]_vars

\* the feature of the adapter is the disable setting or a member of it
Listed ==
    \/ disable.form = "name" /\ disable.name = featureOf(adapter)
    \/ /\ disable.form = "list"
       /\ featureOf(adapter) \in {disable.names[k] : k \in 1..Len(disable.names)}

\* C15: when the feature of the adapter is listed in the disable setting,
\* as the single name or as a member of the list, every step of the stage
\* passes the next entry on as it is, once, and no task, no store access
\* and no request is started for any entry.
C15_DisabledIsIdentity ==
    /\ [][Listed =>
             /\ event'.op = "noop"
             /\ files' = files /\ local' = local
             /\ running' = 0 /\ currentErrors' = 0
             /\ \A i \in Ids : pc'[i] \in {"queued", "done"}
             /\ \A i \in Ids : Takes(i) => Emitted(i)' = 1]_vars
    /\ [](Listed =>
             /\ \A i \in Ids : Emitted(i) = IF i <= consumed THEN 1 ELSE 0
             /\ BagToSet(sink) \subseteq {source[i] : i \in Ids})

\* the feature is the second member of the list, and the whole stream, with
\* entries the dispatcher would enrich, has passed through
C15_Witness ==
    /\ disable.form = "list" /\ Len(disable.names) = 2
    /\ disable.names[2] = featureOf(adapter)
    /\ disable.names[1] # featureOf(adapter)
    /\ adapter = "similarEmbeddings"
    /\ consumed = Len(source)
    /\ \A i \in Ids : Emitted(i) = 1
    /\ \E i \in Ids : Enrichable(i)

(***************************************************************************)
(* Two dispatchers over the same entries: objectDetection and              *)
(* faceDetection each call apiServerEntry, and each call has its own       *)
(* closure.  The handlers of one dispatcher run at a time: the variables   *)
(* of the closure show the dispatcher whose handlers run, and other keeps  *)
(* the closure of the one that waits.                                      *)
(***************************************************************************)
PairAdapters == {"objectDetection", "faceDetection"}
PairSuffixes ==
    {imagePreviewSuffixes[i] : i \in 1..Len(imagePreviewSuffixes)}
        \cup {entrySuffixOf(a) : a \in PairAdapters}

\* the closure of the dispatcher whose handlers run
closure ==
    [adapter |-> adapter, consumed |-> consumed, sink |-> sink,
     running |-> running, currentErrors |-> currentErrors,
     warnings |-> warnings, pc |-> pc, local |-> local, event |-> event,
     tripped |-> tripped, streak |-> streak, remote |-> remote]

\* A slip: currentErrors declared outside apiServerEntry, one counter for
\* every dispatcher of the module.
counterShared(instance) == currentErrors

\* let currentErrors = 0 inside apiServerEntry: the handlers of a
\* dispatcher find the counter of their own closure.
counterOf(instance) == instance.currentErrors

\* the handlers of the other dispatcher run next
switch ==
    /\ other.adapter \in PairAdapters
    /\ other' = closure
    /\ adapter' = other.adapter
    /\ consumed' = other.consumed
    /\ sink' = other.sink
    /\ running' = other.running
    /\ currentErrors' = counterOf(other)
    /\ warnings' = other.warnings
    /\ pc' = other.pc
    /\ local' = other.local
    /\ event' = other.event
    /\ tripped' = other.tripped
    /\ streak' = other.streak
    /\ remote' = other.remote
    /\ UNCHANGED <<concurrent, source, files, disk, disable, run, index>>

NextPair ==
    \/ Next
    \/ switch

\* A stream of images with their previews; the api server fails every
\* request of the one feature and serves every request of the other.  Each
\* dispatcher runs one task at a time, and their steps interleave freely.
InitPair ==
    /\ disable = Absent
    /\ run = 1
    /\ index = NoIndex
    /\ concurrent = 1
    /\ source = [i \in 1..PairEntries |-> [id |-> i, type |-> "image"]]
    /\ files = [i \in 1..PairEntries |->
                  [s \in PairSuffixes |->
                      IF s \in {entrySuffixOf(a) : a \in PairAdapters}
                      THEN NoFile ELSE Jpeg]]
    /\ disk = [i \in Ids |-> {FALSE}]
    /\ InitDispatcher
    /\ \E down \in PairAdapters :
          /\ adapter = down
          /\ remote = [i \in Ids |-> Down(i)]
          /\ other = [closure EXCEPT
                         !.adapter = CHOOSE a \in PairAdapters : a # down,
                         !.remote = [i \in Ids |-> Up(i)]]

SpecPair == InitPair /\ [][NextPair]_vars

\* the counter of the dispatcher built by adapter a
CounterOf(a) == IF adapter = a THEN currentErrors ELSE other.currentErrors

\* C16: the counter of a dispatcher changes only in the steps of its own
\* handlers, never in a step of the other dispatcher or between them; and
\* a dispatcher admits an entry it can enrich exactly when its own counter
\* is at or below the threshold, whatever the counter of the other.
C16_BudgetPerDispatcher ==
    /\ [][\A a \in PairAdapters :
             (adapter # a \/ adapter' # a) => CounterOf(a)' = CounterOf(a)]_vars
    /\ [][\A i \in Ids : (Takes(i) /\ adapter' = adapter) =>
             ((pc'[i] = "readEntryFile") <=>
                 (currentErrors <= ERROR_THRESHOLD /\ Enrichable(i)))]_vars

\* the dispatcher of objectDetection has tripped and waits, and the one of
\* faceDetection, its counter at 0 and results written, has admitted the
\* last entry of the stream
C16_Witness ==
    /\ adapter = "faceDetection"
    /\ other.adapter = "objectDetection"
    /\ other.currentErrors > ERROR_THRESHOLD
    /\ other.consumed = Len(source)
    /\ currentErrors = 0
    /\ event.op = "parallel" /\ event.id = Len(source)
    /\ pc[event.id] = "readEntryFile"
    /\ files[1][entrySuffixOf("faceDetection")] = bodyOf(1)
    /\ \A i \in Ids : files[i][entrySuffixOf("objectDetection")] = NoFile

(***************************************************************************)
(* writeIndex (src/packages/index/src/write.js).  The comparator           *)
(* byDirDescFileAsc and writeJsonGzip live in other files of the           *)
(* repository; they are modelled from section 6 of the specification.      *)
(* Names are modelled by their rank in the order of strings, paths by      *)
(* their segments, and the clock by milliseconds since the epoch.          *)
(***************************************************************************)
IndexEntries == [dir : 1..2, file : 1..2]
Directories == {[absolute |-> TRUE, segments |-> <<"data", "media">>],
                [absolute |-> FALSE, segments |-> <<"media">>]}
Instants == {0, 1}
cwd == <<"home", "user">>

\* path.resolve(directory): an absolute path stays, a relative one is
\* taken from the working directory
resolve(directory) ==
    IF directory.absolute THEN directory.segments ELSE cwd \o directory.segments

\* new Date().toISOString()
toISOString(t) ==
    IF t = 0 THEN "1970-01-01T00:00:00.000Z" ELSE "1970-01-01T00:00:00.001Z"

\* directory descending, then file ascending
byDirDescFileAsc(a, b) ==
    IF a.dir > b.dir THEN -1
    ELSE IF a.dir < b.dir THEN 1
    ELSE IF a.file < b.file THEN -1
    ELSE IF a.file > b.file THEN 1
    ELSE 0

\* x put into a sorted list, behind the elements that do not come after it
insert(sorted, x) ==
    LET before == {k \in 1..Len(sorted) : byDirDescFileAsc(sorted[k], x) <= 0}
        n == Cardinality(before)
    IN  SubSeq(sorted, 1, n) \o <<x>> \o SubSeq(sorted, n + 1, Len(sorted))

RECURSIVE sort(_)
\* entries.sort(byDirDescFileAsc)
sort(entries) ==
    IF entries = <<>> THEN <<>>
    ELSE insert(sort(SubSeq(entries, 1, Len(entries) - 1)), entries[Len(entries)])

\* the index built by the call
indexOf(call) ==
    [type |-> "home-gallery/fileindex@1.0",
     created |-> toISOString(call.now),
     base |-> resolve(call.directory),
     data |-> sort(call.entries)]

dispatcherVars == <<concurrent, source, consumed, sink, running, files, remote, disk,
                    currentErrors, warnings, pc, local, event, tripped, streak,
                    adapter, disable, run, other>>

\* A slip: the promise of the write is not waited for.
writeIndexNoWait ==
    /\ index.pc = "writeIndex"
    /\ index' = IF index.dryRun
                THEN [index EXCEPT !.pc = "resolved",
                                   !.entries = indexOf(index).data,
                                   !.result = <<indexOf(index)>>]
                ELSE [index EXCEPT !.pc = "asyncWriteJsonGzip",
                                   !.entries = indexOf(index).data,
                                   !.pending = <<indexOf(index)>>,
                                   !.result = <<indexOf(index)>>,
                                   !.writes = @ + 1]
    /\ UNCHANGED dispatcherVars

\* writeIndex(directory, filename, entries, options): the index is built,
\* the entries sorted in place; with dryRun it is returned, otherwise
\* handed to writeJsonGzip.
writeIndex ==
    /\ index.pc = "writeIndex"
    /\ index' = IF index.dryRun
                THEN [index EXCEPT !.pc = "resolved",
                                   !.entries = indexOf(index).data,
                                   !.result = <<indexOf(index)>>]
                ELSE [index EXCEPT !.pc = "asyncWriteJsonGzip",
                                   !.entries = indexOf(index).data,
                                   !.pending = <<indexOf(index)>>,
                                   !.writes = @ + 1]
    /\ UNCHANGED dispatcherVars

\* the callback of writeJsonGzip: the promise is rejected on an error and
\* resolved with the index otherwise
asyncWriteJsonGzipCb(err) ==
    /\ index.pc = "asyncWriteJsonGzip"
    /\ index' = IF err
                THEN [index EXCEPT !.pc = "rejected"]
                ELSE [index EXCEPT !.pc = "resolved",
                                   !.file = index.pending,
                                   !.result = index.pending]
    /\ UNCHANGED dispatcherVars

NextIndex ==
    \/ writeIndex
    \/ \E err \in BOOLEAN : asyncWriteJsonGzipCb(err)

IndexInputs == UNION {[1..n -> IndexEntries] : n \in 0..MaxIndexEntries}

\* A call of writeIndex with any list of entries, with and without dryRun;
\* no dispatcher runs.
InitIndex ==
    /\ index \in {[pc |-> "writeIndex", directory |-> d, now |-> t,
                    given |-> e, entries |-> e, dryRun |-> b,
                    pending |-> <<>>, result |-> <<>>, file |-> <<>>, writes |-> 0] :
                      d \in Directories, t \in Instants, e \in IndexInputs,
                      b \in BOOLEAN}
    /\ adapter = "objectDetection"
    /\ disable = Absent
    /\ run = 1
    /\ other = NoInstance
    /\ concurrent = 1
    /\ source = <<>>
    /\ files = <<>>
    /\ remote = <<>>
    /\ disk = <<>>
    /\ InitDispatcher

SpecIndex == InitIndex /\ [][NextIndex]_vars

\* the list is in the order of the comparator
IsSorted(data) ==
    \A i, j \in 1..Len(data) : i < j => byDirDescFileAsc(data[i], data[j]) <= 0

\* the same entries, each as often
SameEntries(s, t) ==
    /\ Len(s) = Len(t)
    /\ \A e \in IndexEntries :
          Cardinality({k \in 1..Len(s) : s[k] = e}) = Cardinality({k \in 1..Len(t) : t[k] = e})

\* the structure writeIndex is to return for the call
IsIndex(x) ==
    /\ x.type = "home-gallery/fileindex@1.0"
    /\ x.created = toISOString(index.now)
    /\ x.base = (IF index.directory.absolute THEN <<>> ELSE cwd) \o index.directory.segments
    /\ IsSorted(x.data)
    /\ SameEntries(x.data, index.given)

\* C17: with dryRun the call returns the index (type, created, base, the
\* entries sorted) and writes nothing; without dryRun it calls the write
\* once, and returns the index, the one written, only when the write has
\* ended without an error.
C17_WriteIndex ==
    /\ index.writes = (IF index.dryRun \/ index.pc = "writeIndex" THEN 0 ELSE 1)
    /\ index.dryRun => index.file = <<>>
    /\ index.pc = "resolved" =>
          /\ Len(index.result) = 1
          /\ IsIndex(index.result[1])
          /\ ~index.dryRun => index.file = index.result
    /\ index.pc # "resolved" => index.result = <<>> /\ index.file = <<>>

\* without dryRun, three entries given out of order are written and
\* returned in order
C17_Witness ==
    /\ index.pc = "resolved"
    /\ ~index.dryRun
    /\ Len(index.given) = 3
    /\ index.given[1].dir < index.given[2].dir
    /\ index.given[2] = index.given[3]
    /\ index.entries # index.given
    /\ index.file = index.result
    /\ ~index.directory.absolute
=============================================================================
